---------------------------- MODULE Spec2Model ----------------------------
(***************************************************************************)
(* The live voice session of src/App.tsx: the React state and refs of the  *)
(* App component, startSession / stopSession / toggleMute, the transport   *)
(* callbacks (onopen, onmessage, onerror, onclose), the capture callback   *)
(* (onaudioprocess) and the playback sources scheduled by onmessage.       *)
(*                                                                         *)
(* Every await of the source is a point where the other handlers may run:  *)
(* startSession is cut at its four awaits, onmessage at its await of       *)
(* decodeAudioData.  React state setters called in one handler are applied *)
(* in call order, so the last setter of a handler decides the value.       *)
(***************************************************************************)
EXTENDS Integers, Sequences, FiniteSets, TLC

(***************************************************************************)
(* Bounds of the model.                                                    *)
(***************************************************************************)
MaxSessions == 2     \* invocations of startSession
MaxChunks == 3       \* messages delivered in the playback specification
MaxSched == 2        \* messages delivered in the scheduling specification
MaxTextMsgs == 2     \* messages delivered in the transcript specification
MaxFrames == 2       \* capture callbacks fired (all sessions)
MaxClock == 2        \* largest value of an output context's currentTime
MaxDur == 1          \* largest duration of a decoded chunk
FrameLen == 1        \* samples per captured frame (4096 in the source)

(***************************************************************************)
(* Program constants.                                                      *)
(***************************************************************************)
SampleDen == 10      \* a sample is n / SampleDen, n \in -SampleDen..SampleDen

Sessions == 1..MaxSessions
NoRef == 0           \* a ref holding null

Max(a, b) == IF a >= b THEN a ELSE b

(***************************************************************************)
(* PCM codec (utils/audio.ts, not among the sources: modelled from the     *)
(* specification, section 4.1).                                            *)
(***************************************************************************)
\* Math.round(x / d) for d > 0: rounds half up.
RoundDiv(x, d) == (2 * x + d) \div (2 * d)

\* round(s < 0 ? s*32768 : s*32767) for the sample s = n / SampleDen.
Quantize(n) == IF n < 0 THEN RoundDiv(n * 32768, SampleDen)
                        ELSE RoundDiv(n * 32767, SampleDen)

\* The two bytes of a 16-bit signed integer, little-endian.
Int16Bytes(q) == LET u == (q + 65536) % 65536 IN <<u % 256, u \div 256>>

RECURSIVE PackLE(_)
PackLE(qs) == IF qs = <<>> THEN <<>> ELSE Int16Bytes(Head(qs)) \o PackLE(Tail(qs))

\* base64: the bytes in groups of three, each group four 6-bit digits; a
\* short last group is padded (digit 64 stands for "=").
RECURSIVE encode(_)
encode(bytes) ==
  IF bytes = <<>> THEN <<>>
  ELSE LET n  == IF Len(bytes) >= 3 THEN 3 ELSE Len(bytes)
           b1 == bytes[1]
           b2 == IF n >= 2 THEN bytes[2] ELSE 0
           b3 == IF n >= 3 THEN bytes[3] ELSE 0
           v  == b1 * 65536 + b2 * 256 + b3
           d1 == v \div 262144
           d2 == (v \div 4096) % 64
           d3 == IF n >= 2 THEN (v \div 64) % 64 ELSE 64
           d4 == IF n >= 3 THEN v % 64 ELSE 64
       IN  <<d1, d2, d3, d4>> \o encode(SubSeq(bytes, n + 1, Len(bytes)))

createBlob(frame) ==
  [ data     |-> encode(PackLE([i \in 1..Len(frame) |-> Quantize(frame[i])])),
    mimeType |-> "audio/pcm;rate=16000" ]

\* The frames of the session specifications: full scale, silence, a sample between.
Samples == {-SampleDen, 0, SampleDen - 1}
Frames == [1..FrameLen -> Samples]

\* The frames of the codec specification: every sample of [-1, 1].
AllFrames == [1..FrameLen -> (-SampleDen)..SampleDen]

\* decode: base64 back to bytes, the exact inverse of encode.
RECURSIVE decode(_)
decode(digits) ==
  IF Len(digits) < 4 THEN <<>>
  ELSE LET d3 == IF digits[3] = 64 THEN 0 ELSE digits[3]
           d4 == IF digits[4] = 64 THEN 0 ELSE digits[4]
           v  == digits[1] * 262144 + digits[2] * 4096 + d3 * 64 + d4
           bs == <<v \div 65536, (v \div 256) % 256, v % 256>>
           n  == IF digits[3] = 64 THEN 1 ELSE IF digits[4] = 64 THEN 2 ELSE 3
       IN  SubSeq(bs, 1, n) \o decode(SubSeq(digits, 5, Len(digits)))

\* A byte order that puts the high byte first.
Int16Of_BigEndian(lo, hi) ==
  LET u == 256 * lo + hi IN IF u >= 32768 THEN u - 65536 ELSE u

\* The 16-bit signed integer of two little-endian bytes.
Int16Of(lo, hi) ==
  LET u == lo + 256 * hi IN IF u >= 32768 THEN u - 65536 ELSE u

\* decodeAudioData, one channel: sample i is the i-th 16-bit integer divided
\* by 32768; the result holds the numerators.
decodeAudioData(bytes) ==
  [i \in 1..(Len(bytes) \div 2) |-> Int16Of(bytes[2 * i - 1], bytes[2 * i])]

(***************************************************************************)
(* Transcript text: a string is a sequence of characters.                  *)
(***************************************************************************)
Fragments == { <<"a">>, <<" ">> }
NoText == << >>

\* !text.trim(): the text is empty or whitespace only.
IsBlank(text) == \A i \in 1..Len(text) : text[i] = " "

(***************************************************************************)
(* State.                                                                  *)
(***************************************************************************)
VARIABLES
  \* React state of App
  status, errorDetail, transcriptionHistory, isMuted,
  currentInputText, currentOutputText,
  \* refs of App
  inputAudioContextRef, outputAudioContextRef, outputNodeRef,
  nextStartTimeRef, sourcesRef, sessionRef, streamRef,
  \* the environment of the page
  apiKey,          \* process.env.API_KEY is set
  mediaDevices,    \* navigator.mediaDevices.getUserMedia exists
  \* one entry per invocation of startSession
  pc,              \* where the invocation is suspended
  closureMuted,    \* isMuted as captured by the invocation's closure
  streams,         \* its MediaStream: "none" | "live" | "stopped"
  inCtx, outCtx,   \* its audio contexts: "none" | "running" | "closed"
  currentTime,     \* the clock of its output context
  transport,       \* its transport: "none" | "connecting" | "open" | "closing" | "failed" | "closed"
  promise,         \* its sessionPromise: "none" | "pending" | "resolved" | "rejected"
  capture,         \* the input context its script processor is attached to (0: none)
  \* capture path
  micLog,          \* capture callbacks fired so far, oldest first
  thens,           \* sends waiting for sessionPromise, oldest first
  sent,            \* invocations of session.sendRealtimeInput, oldest first
  \* playback
  msgCount,        \* transport messages delivered so far
  handlers,        \* onmessage invocations suspended on decodeAudioData
  units,           \* every buffer source created, in scheduling order
  \* observations
  micRequests,     \* calls of getUserMedia so far
  stopAfter,       \* the invocations of startSession a stop intent came after
  epoch,           \* interruptions handled and teardowns run so far
  fresh,           \* an interruption was handled and no chunk has arrived since
  seenClock,       \* greatest currentTime read at a chunk's arrival in this epoch
  lastIntr,        \* arrival number of the last interrupted message handled
  expIn, expOut,   \* the fragments delivered since the last turn-complete delivered
  expHistory       \* the turns the delivered messages call for, in arrival order

reactVars == <<status, errorDetail, transcriptionHistory, isMuted,
               currentInputText, currentOutputText>>
refVars   == <<inputAudioContextRef, outputAudioContextRef, outputNodeRef,
               nextStartTimeRef, sourcesRef, sessionRef, streamRef>>
envVars   == <<apiKey, mediaDevices>>
callVars  == <<pc, closureMuted, streams, inCtx, outCtx, currentTime,
               transport, promise, capture>>
capVars   == <<micLog, thens, sent>>
playVars  == <<msgCount, handlers, units>>
textObs   == <<expIn, expOut, expHistory>>
playObs   == <<fresh, seenClock, lastIntr>>
vars == <<reactVars, refVars, envVars, callVars, capVars, playVars,
          micRequests, stopAfter, epoch, textObs, playObs>>

Init ==
  /\ status = "DISCONNECTED"
  /\ errorDetail = "null"
  /\ transcriptionHistory = << >>
  /\ isMuted = FALSE
  /\ currentInputText = NoText
  /\ currentOutputText = NoText
  /\ inputAudioContextRef = NoRef
  /\ outputAudioContextRef = NoRef
  /\ outputNodeRef = NoRef
  /\ nextStartTimeRef = 0
  /\ sourcesRef = {}
  /\ sessionRef = NoRef
  /\ streamRef = NoRef
  /\ apiKey \in BOOLEAN
  /\ mediaDevices \in BOOLEAN
  /\ pc = [k \in Sessions |-> "idle"]
  /\ closureMuted = [k \in Sessions |-> FALSE]
  /\ streams = [k \in Sessions |-> "none"]
  /\ inCtx = [k \in Sessions |-> "none"]
  /\ outCtx = [k \in Sessions |-> "none"]
  /\ currentTime = [k \in Sessions |-> 0]
  /\ transport = [k \in Sessions |-> "none"]
  /\ promise = [k \in Sessions |-> "none"]
  /\ capture = [k \in Sessions |-> NoRef]
  /\ micLog = << >>
  /\ thens = << >>
  /\ sent = << >>
  /\ msgCount = 0
  /\ handlers = {}
  /\ units = << >>
  /\ micRequests = 0
  /\ stopAfter = {}
  /\ epoch = 0
  /\ fresh = FALSE
  /\ seenClock = 0
  /\ lastIntr = 0
  /\ expIn = NoText
  /\ expOut = NoText
  /\ expHistory = << >>


(***************************************************************************)
(* stopSession (lines 62-85).  r holds the values of the refs and of the   *)
(* resources at the moment it is called: a handler that assigns a ref and  *)
(* then calls stopSession passes the value it has just assigned.           *)
(***************************************************************************)
Cur == [ sessionRef |-> sessionRef, streamRef |-> streamRef,
         inputAudioContextRef |-> inputAudioContextRef,
         outputAudioContextRef |-> outputAudioContextRef,
         transport |-> transport, streams |-> streams,
         inCtx |-> inCtx, outCtx |-> outCtx ]

\* session.close(): an open transport starts closing.
CloseTransport(t) == IF t \in {"connecting", "open"} THEN "closing" ELSE t

\* source.stop() inside try/catch: a scheduled source is stopped.
StopSource(u) == IF u.state = "scheduled" THEN [u EXCEPT !.state = "stopped"] ELSE u

\* sourcesRef.forEach(stop): every source of the set is stopped.
StopAll(us, set) == [i \in 1..Len(us) |-> IF i \in set THEN StopSource(us[i]) ELSE us[i]]

stopSession(r) ==
  /\ transport' = IF r.sessionRef # NoRef
                  THEN [r.transport EXCEPT ![r.sessionRef] = CloseTransport(@)]
                  ELSE r.transport
  /\ sessionRef' = NoRef
  /\ streams' = IF r.streamRef # NoRef
                THEN [r.streams EXCEPT ![r.streamRef] = "stopped"]
                ELSE r.streams
  /\ streamRef' = NoRef
  /\ inCtx' = IF r.inputAudioContextRef # NoRef
              THEN [r.inCtx EXCEPT ![r.inputAudioContextRef] = "closed"]
              ELSE r.inCtx
  /\ inputAudioContextRef' = NoRef
  /\ outCtx' = IF r.outputAudioContextRef # NoRef
               THEN [r.outCtx EXCEPT ![r.outputAudioContextRef] = "closed"]
               ELSE r.outCtx
  /\ outputAudioContextRef' = NoRef
  /\ units' = StopAll(units, sourcesRef)
  /\ sourcesRef' = {}
  /\ status' = "DISCONNECTED"
  /\ currentInputText' = NoText
  /\ currentOutputText' = NoText
  \* observations: a teardown was run; the fragments delivered so far are dropped
  /\ epoch' = epoch + 1
  /\ fresh' = FALSE
  /\ expIn' = NoText
  /\ expOut' = NoText

\* What neither stopSession nor any of its callers changes.
stopRest == <<transcriptionHistory, isMuted, nextStartTimeRef, envVars,
              currentTime, capture, capVars, msgCount, handlers,
              seenClock, lastIntr, expHistory>>

(***************************************************************************)
(* The catch block of startSession (lines 209-221): setStatus(ERROR), the  *)
(* detail chosen from the error, then stopSession(), whose                 *)
(* setStatus(DISCONNECTED) is the last setter of the handler.              *)
(***************************************************************************)
ErrorDetailOf(err) ==
  CASE err \in {"NotAllowedError", "PermissionDeniedError"} -> "MicBlocked"
    [] err = "NotFoundError" -> "NoMic"
    [] OTHER -> err      \* err.message

Catch(k, err, r) ==
  /\ pc' = [pc EXCEPT ![k] = "caught"]
  /\ errorDetail' = ErrorDetailOf(err)
  /\ stopSession(r)

(***************************************************************************)
(* startSession (lines 87-222), one action per stretch between awaits.     *)
(***************************************************************************)
\* The button's onClick (line 364) calls startSession unless status is CONNECTED.
\* Lines 88-100: up to the await of getUserMedia.
StartIntent(k) ==
  /\ status # "CONNECTED"
  /\ pc[k] = "idle"
  /\ \A j \in Sessions : j < k => pc[j] # "idle"
  /\ closureMuted' = [closureMuted EXCEPT ![k] = isMuted]
  /\ IF ~mediaDevices
     THEN /\ Catch(k, "NoMicSupport", Cur)
          /\ UNCHANGED micRequests
     ELSE /\ status' = "CONNECTING"
          /\ errorDetail' = "null"
          /\ micRequests' = micRequests + 1
          /\ pc' = [pc EXCEPT ![k] = "mic"]
          /\ UNCHANGED <<currentInputText, currentOutputText, sessionRef,
                         streamRef, inputAudioContextRef, outputAudioContextRef,
                         sourcesRef, streams, inCtx, outCtx, transport, units,
                         epoch, fresh, expIn, expOut>>
  /\ UNCHANGED <<stopRest, outputNodeRef, promise, stopAfter>>

MicErrors == {"NotAllowedError", "NotFoundError"}

\* getUserMedia rejects: the catch block.
MicDenied(k, err) ==
  /\ pc[k] = "mic"
  /\ Catch(k, err, Cur)
  /\ UNCHANGED <<stopRest, outputNodeRef, closureMuted, promise, micRequests, stopAfter>>

\* Lines 108-117: the stream is stored, both contexts are created and stored,
\* resume() of the input context is awaited.
MicGranted(k) ==
  /\ pc[k] = "mic"
  /\ streams' = [streams EXCEPT ![k] = "live"]
  /\ streamRef' = k
  /\ inCtx' = [inCtx EXCEPT ![k] = "running"]
  /\ inputAudioContextRef' = k
  /\ outCtx' = [outCtx EXCEPT ![k] = "running"]
  /\ outputAudioContextRef' = k
  /\ pc' = [pc EXCEPT ![k] = "resumeIn"]
  /\ UNCHANGED <<reactVars, outputNodeRef, nextStartTimeRef, sourcesRef, sessionRef,
                 envVars, closureMuted, currentTime, transport, promise, capture,
                 capVars, playVars, micRequests, stopAfter, epoch, textObs, playObs>>

\* Lines 108-113 when the AudioContext constructor throws: the stream is
\* stored, no context exists, the catch block runs.
MicGrantedNoContext(k) ==
  /\ pc[k] = "mic"
  /\ Catch(k, "Other",
           [Cur EXCEPT !.streamRef = k, !.streams = [streams EXCEPT ![k] = "live"]])
  /\ UNCHANGED <<stopRest, outputNodeRef, closureMuted, promise, micRequests, stopAfter>>

\* Line 118: outputAudioContextRef.current!.resume() is called; a null ref
\* throws a TypeError into the catch block.
ResumedIn(k) ==
  /\ pc[k] = "resumeIn"
  /\ IF outputAudioContextRef = NoRef
     THEN /\ Catch(k, "Other", Cur)
          /\ UNCHANGED <<stopRest, outputNodeRef, closureMuted, promise,
                         micRequests, stopAfter>>
     ELSE /\ pc' = [pc EXCEPT ![k] = "resumeOut"]
          /\ UNCHANGED <<reactVars, refVars, envVars, closureMuted, streams, inCtx,
                         outCtx, currentTime, transport, promise, capture, capVars,
                         playVars, micRequests, stopAfter, epoch, textObs, playObs>>

\* Lines 120-208: the gain node, the credential check, ai.live.connect, the
\* await of sessionPromise.
ResumedOut(k) ==
  /\ pc[k] = "resumeOut"
  /\ IF outputAudioContextRef = NoRef
     THEN /\ Catch(k, "Other", Cur)
          /\ UNCHANGED <<stopRest, outputNodeRef, closureMuted, promise,
                         micRequests, stopAfter>>
     ELSE IF ~apiKey
     THEN /\ outputNodeRef' = outputAudioContextRef
          /\ Catch(k, "KeyMissing", Cur)
          /\ UNCHANGED <<stopRest, closureMuted, promise, micRequests, stopAfter>>
     ELSE /\ outputNodeRef' = outputAudioContextRef
          /\ transport' = [transport EXCEPT ![k] = "connecting"]
          /\ promise' = [promise EXCEPT ![k] = "pending"]
          /\ pc' = [pc EXCEPT ![k] = "session"]
          /\ UNCHANGED <<reactVars, inputAudioContextRef, outputAudioContextRef,
                         nextStartTimeRef, sourcesRef, sessionRef, streamRef,
                         envVars, closureMuted, streams, inCtx, outCtx, currentTime,
                         capture, capVars, playVars, micRequests, stopAfter, epoch,
                         textObs, playObs>>

\* sessionPromise rejects (the handshake fails): the catch block.
ConnectFailed(k) ==
  /\ pc[k] = "session"
  /\ promise[k] = "pending"
  /\ transport[k] \in {"connecting", "failed"}
  /\ promise' = [promise EXCEPT ![k] = "rejected"]
  /\ Catch(k, "Other",
           [Cur EXCEPT !.transport = [transport EXCEPT ![k] =
                                        IF @ = "connecting" THEN "closed" ELSE @]])
  /\ UNCHANGED <<stopRest, outputNodeRef, closureMuted, micRequests, stopAfter>>

(***************************************************************************)
(* The transport callbacks (lines 142-205).                                *)
(***************************************************************************)
\* onopen (lines 143-161): CONNECTED, and the script processor is created on
\* inputAudioContextRef.current; a null ref throws out of the callback after
\* the status was set.  The SDK resolves sessionPromise after onopen.
OnOpen(k) ==
  /\ transport[k] = "connecting"
  /\ promise[k] = "pending"
  /\ transport' = [transport EXCEPT ![k] = "open"]
  /\ promise' = [promise EXCEPT ![k] = "opening"]
  /\ status' = "CONNECTED"
  /\ capture' = [capture EXCEPT ![k] = inputAudioContextRef]
  /\ UNCHANGED <<errorDetail, transcriptionHistory, isMuted, currentInputText,
                 currentOutputText, refVars, envVars, pc, closureMuted, streams,
                 inCtx, outCtx, currentTime, capVars, playVars, micRequests,
                 stopAfter, epoch, textObs, playObs>>

\* Callbacks that run last-registered first.
RunQueued_LastFirst(done, queued) ==
  done \o [i \in 1..Len(queued) |-> queued[Len(queued) + 1 - i]]

\* The callbacks registered with sessionPromise.then (lines 154-156) run in
\* the order they were registered once the promise resolves.
RunQueued(done, queued) == done \o queued

\* sessionPromise resolves: the await of line 208 assigns sessionRef, then
\* the sends queued with sessionPromise.then run in the order they were queued.
SessionResolved(k) ==
  /\ pc[k] = "session"
  /\ promise[k] = "opening"
  /\ promise' = [promise EXCEPT ![k] = "resolved"]
  /\ sessionRef' = k
  /\ pc' = [pc EXCEPT ![k] = "done"]
  /\ sent' = RunQueued(sent, SelectSeq(thens, LAMBDA e : e.k = k))
  /\ thens' = SelectSeq(thens, LAMBDA e : e.k # k)
  /\ UNCHANGED <<reactVars, inputAudioContextRef, outputAudioContextRef,
                 outputNodeRef, nextStartTimeRef, sourcesRef, streamRef, envVars,
                 closureMuted, streams, inCtx, outCtx, currentTime, transport,
                 capture, micLog, playVars, micRequests, stopAfter, epoch,
                 textObs, playObs>>

\* onerror (lines 195-200): the detail, ERROR, then stopSession(), whose
\* setStatus(DISCONNECTED) is the last setter of the handler.
OnError(k) ==
  /\ transport[k] \in {"connecting", "open"}
  /\ errorDetail' = "ConnFailed"
  /\ stopSession([Cur EXCEPT !.transport = [transport EXCEPT ![k] = "failed"]])
  /\ UNCHANGED <<stopRest, outputNodeRef, pc, closureMuted, promise, micRequests,
                 stopAfter>>

\* onclose (lines 201-204): DISCONNECTED, nothing else.
OnClose(k) ==
  /\ transport[k] \in {"open", "closing", "failed"}
  /\ transport' = [transport EXCEPT ![k] = "closed"]
  /\ status' = "DISCONNECTED"
  /\ UNCHANGED <<errorDetail, transcriptionHistory, isMuted, currentInputText,
                 currentOutputText, refVars, envVars, pc, closureMuted, streams,
                 inCtx, outCtx, currentTime, promise, capture, capVars, playVars,
                 micRequests, stopAfter, epoch, textObs, playObs>>

(***************************************************************************)
(* The user's other intents.                                               *)
(***************************************************************************)
\* The button's onClick (line 364) calls stopSession when status is CONNECTED.
StopIntent ==
  /\ status = "CONNECTED"
  /\ stopSession(Cur)
  /\ stopAfter' = stopAfter \cup {k \in Sessions : pc[k] # "idle"}
  /\ UNCHANGED <<stopRest, errorDetail, outputNodeRef, pc, closureMuted, promise,
                 micRequests>>

\* toggleMute (line 224); the mute button is disabled unless status is
\* CONNECTED (line 354).
toggleMute ==
  /\ status = "CONNECTED"
  /\ isMuted' = ~isMuted
  /\ UNCHANGED <<status, errorDetail, transcriptionHistory, currentInputText,
                 currentOutputText, refVars, envVars, callVars, capVars, playVars,
                 micRequests, stopAfter, epoch, textObs, playObs>>

(***************************************************************************)
(* The capture callback (lines 150-157).  It consults the isMuted of the   *)
(* render whose startSession created it, and queues the send on            *)
(* sessionPromise.                                                         *)
(***************************************************************************)
onaudioprocess(k, frame) ==
  /\ capture[k] # NoRef
  /\ inCtx[capture[k]] = "running"
  /\ micLog' = Append(micLog, [k |-> k, frame |-> frame, muted |-> isMuted,
                               status |-> status])
  /\ LET e == [k |-> k, media |-> createBlob(frame), n |-> Len(micLog) + 1,
                queued |-> promise[k] # "resolved"]
     IN  IF closureMuted[k]
         THEN UNCHANGED <<thens, sent>>
         ELSE IF promise[k] = "resolved"
         THEN sent' = Append(sent, e) /\ UNCHANGED thens
         ELSE thens' = Append(thens, e) /\ UNCHANGED sent
  /\ UNCHANGED <<reactVars, refVars, envVars, callVars, playVars, micRequests,
                 stopAfter, epoch, textObs, playObs>>

(***************************************************************************)
(* onmessage (lines 162-194).  A message carries any of: an audio chunk    *)
(* (audio = its decoded duration, 0 when absent), an input and an output   *)
(* transcript fragment (NoText when absent), turnComplete, interrupted.    *)
(***************************************************************************)
Message(a, i, o, t, x) == [audio |-> a, inT |-> i, outT |-> o, tc |-> t, intr |-> x]

\* A scheduler that chains on the cursor alone and never consults the clock.
StartTime_CursorOnly(cursor, clock) == cursor

\* A scheduler that jumps to the clock at every arrival and forgets what it
\* has already scheduled.
StartTime_ClockOnly(cursor, clock) == clock

\* Line 166: the cursor never lies before the context's clock.
StartTime(cursor, clock) == Max(cursor, clock)

\* An append that takes any text, blank or not.
appendToHistory_NoTrim(hist, role, text) ==
  Append(hist, [role |-> role, text |-> text])

\* An append that forgets the turns before it.
appendToHistory_Replace(hist, role, text) ==
  IF IsBlank(text) THEN hist ELSE <<[role |-> role, text |-> text]>>

\* appendToHistory (lines 57-60); the timestamp is left out.
appendToHistory(hist, role, text) ==
  IF IsBlank(text) THEN hist ELSE Append(hist, [role |-> role, text |-> text])

\* Lines 178 and 181: prev + fragment.
Accumulate(prev, frag) == prev \o frag

\* Lines 184-187: both updaters; each appends when its text is not empty.
TurnComplete(hist, inText, outText) ==
  LET h1 == IF inText # NoText THEN appendToHistory(hist, "user", inText) ELSE hist
  IN  IF outText # NoText THEN appendToHistory(h1, "model", outText) ELSE h1

\* Lines 177-193, which follow the audio branch: m is the message, n its
\* arrival number; us, srcs and cursor are the sources, the active set and
\* the cursor the audio branch has left.
AfterAudio(m, n, us, srcs, cursor) ==
  LET inText  == IF m.inT # NoText THEN Accumulate(currentInputText, m.inT)
                                   ELSE currentInputText
      outText == IF m.outT # NoText THEN Accumulate(currentOutputText, m.outT)
                                    ELSE currentOutputText
  IN  /\ transcriptionHistory' =
           IF m.tc THEN TurnComplete(transcriptionHistory, inText, outText)
                   ELSE transcriptionHistory
      /\ currentInputText' = IF m.tc THEN NoText ELSE inText
      /\ currentOutputText' = IF m.tc THEN NoText ELSE outText
      /\ IF m.intr
         THEN /\ units' = StopAll(us, srcs)
              /\ sourcesRef' = {}
              /\ nextStartTimeRef' = 0
              /\ epoch' = epoch + 1
              /\ fresh' = TRUE
              /\ lastIntr' = n
         ELSE /\ units' = us
              /\ sourcesRef' = srcs
              /\ nextStartTimeRef' = cursor
              /\ UNCHANGED <<epoch, fresh, lastIntr>>

\* The turns the messages delivered so far call for (section 4.4 of the
\* specification), kept apart from the code's own bookkeeping.
ExpectedTurns(hist, inText, outText) ==
  LET h1 == IF IsBlank(inText) THEN hist
            ELSE Append(hist, [role |-> "user", text |-> inText])
  IN  IF IsBlank(outText) THEN h1
      ELSE Append(h1, [role |-> "model", text |-> outText])

\* A message is delivered.  With an audio chunk and an output context
\* (lines 163-167) the cursor is raised and the handler suspends on
\* decodeAudioData; otherwise the rest of the handler runs at once.
onmessage(k, m) ==
  /\ transport[k] = "open"
  /\ msgCount' = msgCount + 1
  /\ expHistory' = IF m.tc THEN ExpectedTurns(expHistory, expIn \o m.inT, expOut \o m.outT)
                           ELSE expHistory
  /\ expIn' = IF m.tc THEN NoText ELSE expIn \o m.inT
  /\ expOut' = IF m.tc THEN NoText ELSE expOut \o m.outT
  /\ IF m.audio > 0 /\ outputAudioContextRef # NoRef
     THEN LET ctx == outputAudioContextRef
          IN  /\ nextStartTimeRef' = StartTime(nextStartTimeRef, currentTime[ctx])
              /\ handlers' = handlers \cup
                   {[k |-> k, n |-> msgCount + 1, ctx |-> ctx, m |-> m,
                     arr |-> currentTime[ctx], first |-> fresh]}
              /\ seenClock' = Max(seenClock, currentTime[ctx])
              /\ fresh' = FALSE
              /\ UNCHANGED <<transcriptionHistory, currentInputText,
                             currentOutputText, units, sourcesRef, epoch, lastIntr>>
     ELSE /\ AfterAudio(m, msgCount + 1, units, sourcesRef, nextStartTimeRef)
          /\ UNCHANGED <<handlers, seenClock>>
  /\ UNCHANGED <<status, errorDetail, isMuted, inputAudioContextRef,
                 outputAudioContextRef, outputNodeRef, sessionRef, streamRef,
                 envVars, callVars, capVars, micRequests, stopAfter>>

\* decodeAudioData has resolved (lines 168-174): the source is created,
\* connected to the gain node, started at the cursor and added to the set,
\* the cursor advances by the buffer's duration; then lines 177-193.
\* connect() throws when the gain node belongs to another context, and the
\* handler ends there.
ondecoded(h) ==
  /\ h \in handlers
  /\ handlers' = handlers \ {h}
  /\ IF outputNodeRef # h.ctx
     THEN UNCHANGED <<transcriptionHistory, currentInputText, currentOutputText,
                      units, sourcesRef, nextStartTimeRef, epoch, fresh, lastIntr>>
     ELSE LET u  == [k |-> h.k, n |-> h.n, ctx |-> h.ctx,
                     start |-> nextStartTimeRef, dur |-> h.m.audio,
                     at |-> currentTime[h.ctx], arr |-> h.arr, first |-> h.first,
                     epoch |-> epoch, seen |-> seenClock, state |-> "scheduled"]
              us == Append(units, u)
          IN  AfterAudio(h.m, h.n, us, sourcesRef \cup {Len(us)},
                   nextStartTimeRef + h.m.audio)
  /\ UNCHANGED <<status, errorDetail, isMuted, inputAudioContextRef,
                 outputAudioContextRef, outputNodeRef, sessionRef, streamRef,
                 envVars, callVars, capVars, msgCount, micRequests, stopAfter,
                 seenClock, textObs>>

\* The moment a source started at `start`, scheduled when the clock read
\* `at`, begins to play: a start time in the past plays at once.
PlayFrom(u) == Max(u.start, u.at)

\* source.onended (line 171): the source has played to its end on a running
\* context and is deleted from the set.
onended(i) ==
  /\ i \in 1..Len(units)
  /\ units[i].state = "scheduled"
  /\ outCtx[units[i].ctx] = "running"
  /\ currentTime[units[i].ctx] >= PlayFrom(units[i]) + units[i].dur
  /\ units' = [units EXCEPT ![i].state = "ended"]
  /\ sourcesRef' = sourcesRef \ {i}
  /\ UNCHANGED <<reactVars, inputAudioContextRef, outputAudioContextRef,
                 outputNodeRef, nextStartTimeRef, sessionRef, streamRef, envVars,
                 callVars, capVars, msgCount, handlers, micRequests, stopAfter,
                 epoch, textObs, playObs>>

\* The clock of a running output context advances.
Tick(c) ==
  /\ outCtx[c] = "running"
  /\ currentTime' = [currentTime EXCEPT ![c] = @ + 1]
  /\ UNCHANGED <<reactVars, refVars, envVars, pc, closureMuted, streams, inCtx,
                 outCtx, transport, promise, capture, capVars, playVars,
                 micRequests, stopAfter, epoch, textObs, playObs>>

(***************************************************************************)
(* The specifications.  The bounds are stated here, not in the actions.    *)
(***************************************************************************)
Texts == {NoText} \cup Fragments

\* startSession and the transport callbacks of invocation k, and the stop
\* intent.
Lifecycle(k) ==
  \/ StartIntent(k)
  \/ \E err \in MicErrors : MicDenied(k, err)
  \/ MicGranted(k)
  \/ MicGrantedNoContext(k)
  \/ ResumedIn(k)
  \/ ResumedOut(k)
  \/ ConnectFailed(k)
  \/ OnOpen(k)
  \/ SessionResolved(k)
  \/ OnError(k)
  \/ OnClose(k)
  \/ StopIntent

\* Sessions and capture: every interleaving of up to MaxSessions invocations
\* of startSession with the user's intents and the capture callback.
Next ==
  \/ \E k \in Sessions : Lifecycle(k)
  \/ toggleMute
  \/ \E k \in Sessions, f \in Frames :
       Len(micLog) < MaxFrames /\ onaudioprocess(k, f)

Spec == Init /\ [][Next]_vars

\* Playback: one session, messages that carry audio chunks and interruptions.
AudioMessages ==
  { Message(a, NoText, NoText, FALSE, x) : a \in 0..MaxDur, x \in BOOLEAN }
  \ { Message(0, NoText, NoText, FALSE, FALSE) }

NextPlayback ==
  \/ Lifecycle(1)
  \/ \E m \in AudioMessages : msgCount < MaxChunks /\ onmessage(1, m)
  \/ \E h \in handlers : ondecoded(h)
  \/ \E i \in 1..Len(units) : onended(i)
  \/ currentTime[1] < MaxClock /\ Tick(1)

SpecPlayback == Init /\ [][NextPlayback]_vars

\* Scheduling: one session that connects, is fed chunks and interruptions,
\* and may be stopped.
NextSchedule ==
  \/ StartIntent(1)
  \/ MicGranted(1)
  \/ ResumedIn(1)
  \/ ResumedOut(1)
  \/ OnOpen(1)
  \/ SessionResolved(1)
  \/ StopIntent
  \/ \E m \in AudioMessages : msgCount < MaxSched /\ onmessage(1, m)
  \/ \E h \in handlers : ondecoded(h)
  \/ \E i \in 1..Len(units) : onended(i)
  \/ currentTime[1] < MaxClock /\ Tick(1)

SpecSchedule == Init /\ [][NextSchedule]_vars

\* Transcript: one session, messages that carry fragments and turn-complete,
\* with or without an audio chunk.
TextMessages ==
  { Message(a, i, o, t, FALSE) : a \in {0, 1}, i \in Texts, o \in Texts, t \in BOOLEAN }
  \ { Message(0, NoText, NoText, FALSE, FALSE), Message(1, NoText, NoText, FALSE, FALSE) }

NextTranscript ==
  \/ Lifecycle(1)
  \/ \E m \in TextMessages : msgCount < MaxTextMsgs /\ onmessage(1, m)
  \/ \E h \in handlers : ondecoded(h)

SpecTranscript == Init /\ [][NextTranscript]_vars

\* Teardown: one session with capture and inbound audio at once.
NextTeardown ==
  \/ Lifecycle(1)
  \/ \E f \in Frames : Len(micLog) < MaxFrames /\ onaudioprocess(1, f)
  \/ \E m \in AudioMessages : msgCount < MaxSched /\ onmessage(1, m)
  \/ \E h \in handlers : ondecoded(h)
  \/ \E i \in 1..Len(units) : onended(i)
  \/ currentTime[1] < MaxClock /\ Tick(1)

SpecTeardown == Init /\ [][NextTeardown]_vars

\* Codec: one session that connects and captures one frame of any samples;
\* frames are encoded independently of each other.
NextCodec ==
  \/ StartIntent(1)
  \/ MicGranted(1)
  \/ ResumedIn(1)
  \/ ResumedOut(1)
  \/ OnOpen(1)
  \/ SessionResolved(1)
  \/ StopIntent
  \/ \E f \in AllFrames : micLog = << >> /\ onaudioprocess(1, f)

SpecCodec == Init /\ [][NextCodec]_vars

\* Capture: one session that connects, captures, mutes and is stopped or
\* closed.
NextCapture ==
  \/ StartIntent(1)
  \/ MicGranted(1)
  \/ ResumedIn(1)
  \/ ResumedOut(1)
  \/ OnOpen(1)
  \/ SessionResolved(1)
  \/ OnClose(1)
  \/ StopIntent
  \/ toggleMute
  \/ \E f \in Frames : Len(micLog) < MaxFrames /\ onaudioprocess(1, f)

SpecCapture == Init /\ [][NextCapture]_vars

\* History: a session that is stopped, closed or fails and the sessions
\* started after it, all fed transcript messages.
ModelTurnMessages ==
  { Message(0, NoText, o, t, FALSE) : o \in Fragments, t \in BOOLEAN }
  \cup { Message(0, <<"a">>, NoText, TRUE, FALSE),
         Message(1, NoText, <<"a">>, TRUE, FALSE) }

\* The invocations before k have returned and their transports are over.
Over(k) ==
  \A j \in Sessions :
    j < k => (pc[j] \in {"done", "caught"} /\ transport[j] \notin {"connecting", "open"})

NextHistory ==
  \/ \E k \in Sessions :
       \/ Over(k) /\ StartIntent(k)
       \/ MicGranted(k)
       \/ ResumedIn(k)
       \/ ResumedOut(k)
       \/ OnOpen(k)
       \/ SessionResolved(k)
       \/ OnError(k)
       \/ OnClose(k)
       \/ \E m \in ModelTurnMessages : msgCount < MaxTextMsgs /\ onmessage(k, m)
  \/ StopIntent
  \/ \E h \in handlers : ondecoded(h)

SpecHistory == Init /\ [][NextHistory]_vars

(***************************************************************************)
(* Claims about sessions and capture, checked under Spec.                  *)
(***************************************************************************)
\* The sends (made or queued on sessionPromise) that carry capture callback i.
SendsOf(i) == SelectSeq(sent \o thens, LAMBDA e : e.n = i)

\* C1: in a Connected session a frame produced while the mute flag is false
\* causes exactly one send, carrying encode(F), and a frame produced while
\* the mute flag is true causes no send; the flag is the one current when
\* the capture callback fires.
C1_MuteGatesSend ==
  \A i \in 1..Len(micLog) :
    micLog[i].status = "CONNECTED" =>
      IF micLog[i].muted
      THEN SelectSeq(sent, LAMBDA e : e.n = i) = << >>
      ELSE /\ Len(SendsOf(i)) = 1
           /\ SendsOf(i)[1].media = createBlob(micLog[i].frame)

\* An invocation of startSession has returned, normally or through its catch.
Completed(k) == pc[k] \in {"done", "caught"}

\* No handle is set and nothing invocation k acquired is still open.
Released(k) ==
  /\ streams[k] # "live"
  /\ inCtx[k] # "running"
  /\ outCtx[k] # "running"
  /\ transport[k] \notin {"connecting", "open"}

HandlesUnset ==
  /\ sessionRef = NoRef
  /\ streamRef = NoRef
  /\ inputAudioContextRef = NoRef
  /\ outputAudioContextRef = NoRef

\* C7: once stop() and every start() it came after have run to completion
\* (and no start() was invoked since), the state is Disconnected, every
\* handle is unset and every resource is released.
C7_StopReleasesAll ==
  ( /\ stopAfter # {}
    /\ \A k \in stopAfter : Completed(k)
    /\ \A k \in Sessions \ stopAfter : pc[k] = "idle" )
  => /\ status = "DISCONNECTED"
     /\ HandlesUnset
     /\ \A k \in stopAfter : Released(k)

\* The invocation of startSession made last.
IsLatest(k) == pc[k] # "idle" /\ \A j \in Sessions : j > k => pc[j] = "idle"

\* C8: after a failure inside start(), or a transport error callback, the
\* state is Error with a non-empty detail until start() is invoked again.
C8_ErrorIsSticky ==
  \A k \in Sessions :
    (IsLatest(k) /\ (pc[k] = "caught" \/ transport[k] = "failed"))
      => (status = "ERROR" /\ errorDetail # "null")

\* C9: after a failed start() has completed, nothing it acquired is open
\* and no handle still refers to it.
C9_FailedStartReleases ==
  \A k \in Sessions :
    pc[k] = "caught" =>
      /\ Released(k)
      /\ k \notin {sessionRef, streamRef, inputAudioContextRef, outputAudioContextRef}

\* C10: with the credential absent, the microphone is never requested and
\* no device context is ever opened.
C10_NoPromptWithoutCredential ==
  ~apiKey =>
    /\ micRequests = 0
    /\ \A k \in Sessions : streams[k] = "none" /\ inCtx[k] = "none" /\ outCtx[k] = "none"

(***************************************************************************)
(* Claims about playback, checked under SpecPlayback and SpecSchedule.     *)
(***************************************************************************)
\* The step that handles an interrupted signal.
InterruptionStep == lastIntr' # lastIntr

\* C2: handling an interrupted signal stops every unit of the active set,
\* leaves the set empty and the cursor at 0; and the first chunk to arrive
\* after it is scheduled at max(0, the device clock), the clock being read
\* at some moment between the chunk's arrival and its scheduling.
C2_InterruptionResets ==
  /\ [][InterruptionStep =>
          /\ sourcesRef' = {}
          /\ nextStartTimeRef' = 0
          /\ \A i \in 1..Len(units') :
               (i \in sourcesRef \/ i > Len(units)) => units'[i].state # "scheduled"
       ]_vars
  /\ [](\A i \in 1..Len(units) :
          units[i].first =>
            \E c \in units[i].arr..units[i].at : units[i].start = Max(0, c))

\* C3: once a chunk's handler and the handler of an interrupted message
\* delivered after it have both run, the chunk's unit is stopped (or has
\* ended) and is not in the active set.
C3_InterruptedUnitStopped ==
  \A i \in 1..Len(units) :
    units[i].n < lastIntr =>
      (units[i].state \in {"stopped", "ended"} /\ i \notin sourcesRef)

\* The end of the unit scheduled before unit i (0 for the first unit).
PrevEnd(i) == IF i = 1 THEN 0 ELSE units[i - 1].start + units[i - 1].dur

\* The units scheduled before any interruption or teardown.
FirstRun == {i \in 1..Len(units) : units[i].epoch = 0}

\* C4 as claimed: the first unit starts at max(0, the clock at its arrival)
\* and every later unit at the previous unit's start plus duration.
C4_BackToBack ==
  \A i \in FirstRun :
    units[i].start = IF i = 1 THEN Max(0, units[i].arr) ELSE PrevEnd(i)

\* C4 as amended: every unit starts at the larger of the previous unit's
\* end (0 for the first unit) and the greatest device clock read at a chunk
\* arrival so far.
C4_ChainedOrClock ==
  \A i \in FirstRun : units[i].start = Max(PrevEnd(i), units[i].seen)

\* C4's case: a later unit that does not follow the previous one back to
\* back, the clock having passed the cursor.
C4_Witness ==
  \E i \in FirstRun : i > 1 /\ units[i].start > PrevEnd(i)

(***************************************************************************)
(* Claims about the transcript, checked under SpecTranscript.              *)
(***************************************************************************)
\* The turn a turn-complete signal appends for one accumulator.
TurnOf(role, text) ==
  IF IsBlank(text) THEN << >> ELSE <<[role |-> role, text |-> text]>>

\* What the turn-complete branch owes when message m reaches it.
TurnCompleteEffect(m) ==
  /\ transcriptionHistory' =
       transcriptionHistory \o TurnOf("user", currentInputText \o m.inT)
                            \o TurnOf("model", currentOutputText \o m.outT)
  /\ currentInputText' = NoText
  /\ currentOutputText' = NoText

C6_FragmentsMakeOneTurn ==
  (handlers = {} /\ epoch = 0) => transcriptionHistory = expHistory

(***************************************************************************)
(* Claims about teardown, checked under SpecTeardown and SpecPlayback.     *)
(***************************************************************************)
\* stopSession has released a resource of invocation k.
TornDown(k) ==
  streams[k] = "stopped" \/ inCtx[k] = "closed" \/ outCtx[k] = "closed"

\* C11: once teardown has begun no frame reaches sendRealtimeInput, no
\* source is created and started, and none is added to the active set.
C11_NothingAfterTeardown ==
  [][ /\ \A i \in (Len(sent) + 1)..Len(sent') : ~TornDown(sent'[i].k)
      /\ \A i \in (Len(units) + 1)..Len(units') : ~TornDown(units'[i].k)
      /\ \A i \in sourcesRef' \ sourcesRef : ~TornDown(units'[i].k)
    ]_vars

(***************************************************************************)
(* Claims about the codec, checked under SpecCodec.                        *)
(***************************************************************************)
Abs(x) == IF x < 0 THEN -x ELSE x

\* The samples a sent blob decodes to, as numerators over 32768.
Decoded(e) == decodeAudioData(decode(e.media.data))

\* Twice the largest error of a sent blob's round trip, in units of
\* 1 / (32768 * SampleDen): sample n / SampleDen against q / 32768.
RoundTripError2(e) ==
  LET frame == micLog[e.n].frame
      dec   == Decoded(e)
  IN  [i \in 1..Len(frame) |-> 2 * Abs(dec[i] * SampleDen - frame[i] * 32768)]

\* C12 as claimed: decoding an encoded frame gives back as many samples,
\* each within 1/32768 of the original.
C12_RoundTripWithinOne ==
  \A j \in 1..Len(sent) :
    /\ Len(Decoded(sent[j])) = FrameLen
    /\ \A i \in 1..FrameLen : RoundTripError2(sent[j])[i] <= 2 * SampleDen

\* C12 as amended: each sample comes back within 1.5/32768, and within
\* 0.5/32768 when it is negative.
C12_RoundTripWithinOneAndHalf ==
  \A j \in 1..Len(sent) :
    /\ Len(Decoded(sent[j])) = FrameLen
    /\ \A i \in 1..FrameLen :
         RoundTripError2(sent[j])[i] <=
           IF micLog[sent[j].n].frame[i] < 0 THEN SampleDen ELSE 3 * SampleDen

\* C12's case: a frame holding the sample 0.9 has been encoded and sent.
C12_Witness ==
  \E j \in 1..Len(sent) :
    /\ micLog[sent[j].n].frame[1] = SampleDen - 1
    /\ RoundTripError2(sent[j])[1] > 2 * SampleDen

(***************************************************************************)
(* Claims about the error path.                                            *)
(***************************************************************************)
\* C13: after a transport error callback of invocation k, once that
\* invocation of startSession has returned, its transport is not open, its
\* stream is stopped, its contexts are closed, every handle is unset, the
\* active set is empty and both accumulators are empty.
C13_ErrorTearsDownAll ==
  \A k \in Sessions :
    (transport[k] = "failed" /\ Completed(k)) =>
      /\ Released(k)
      /\ HandlesUnset
      /\ sourcesRef = {}
      /\ currentInputText = NoText
      /\ currentOutputText = NoText

(***************************************************************************)
(* Claims about the order of playback, checked under SpecPlayback.         *)
(***************************************************************************)
\* The moment a unit stops playing when nothing stops it.
PlayEnd(u) == PlayFrom(u) + u.dur

\* C14: units are scheduled in the arrival order of their chunks, a unit
\* that arrived later does not begin to play before an earlier one that was
\* not force-stopped has played to its end, and no unit is given a start
\* time that lies before the clock at the moment it is scheduled.
C14_InOrderNoOverlap ==
  /\ \A i, j \in 1..Len(units) :
       (units[i].k = units[j].k /\ units[i].n < units[j].n) =>
         /\ i < j
         /\ units[i].state # "stopped" => PlayFrom(units[j]) >= PlayEnd(units[i])
  /\ \A i \in 1..Len(units) : units[i].start >= units[i].at

(***************************************************************************)
(* Claims about overlapping sessions and capture, checked under Spec.      *)
(***************************************************************************)
\* C15: at every moment at most one microphone stream is live, at most one
\* input and one output context are running and at most one transport
\* session is connecting or open, and every open resource is the one its
\* handle refers to.
C15_OneSessionAtATime ==
  /\ Cardinality({k \in Sessions : streams[k] = "live"}) <= 1
  /\ Cardinality({k \in Sessions : inCtx[k] = "running"}) <= 1
  /\ Cardinality({k \in Sessions : outCtx[k] = "running"}) <= 1
  /\ Cardinality({k \in Sessions : transport[k] \in {"connecting", "open"}}) <= 1
  /\ \A k \in Sessions :
       /\ streams[k] = "live" => streamRef = k
       /\ inCtx[k] = "running" => inputAudioContextRef = k
       /\ outCtx[k] = "running" => outputAudioContextRef = k

\* C17: a capture callback that fires while the state is not Connected
\* never reaches sendRealtimeInput.
C17_NoSendUnlessConnected ==
  \A i \in 1..Len(micLog) :
    micLog[i].status # "CONNECTED" =>
      SelectSeq(sent, LAMBDA e : e.n = i) = << >>

(***************************************************************************)
(* Claims about the active set, checked under SpecPlayback.                *)
(***************************************************************************)
\* C16: a unit leaves the active set in the step that ends it or stops it,
\* never comes back, and while it is in the set it can still leave it by
\* playing to its end: it is scheduled on a running context.  (On a closed
\* context a source never plays and onended never fires.)
C16_RemovedOnceNeverLeaked ==
  /\ [][ \A i \in 1..Len(units) :
           /\ (i \in sourcesRef /\ i \notin sourcesRef') =>
                (units[i].state = "scheduled" /\ units'[i].state \in {"ended", "stopped"})
           /\ i \notin sourcesRef => i \notin sourcesRef'
       ]_vars
  /\ [](\A i \in sourcesRef :
          units[i].state = "scheduled" /\ outCtx[units[i].ctx] = "running")

(***************************************************************************)
(* Claims about the order of sends, checked under SpecCapture.             *)
(***************************************************************************)
\* C18: the frames of one session reach sendRealtimeInput in the order they
\* were captured, each at most once and with its own blob.
C18_SendsInCaptureOrder ==
  \A i, j \in 1..Len(sent) :
    /\ sent[i].media = createBlob(micLog[sent[i].n].frame)
    /\ (i < j /\ sent[i].k = sent[j].k) => sent[i].n < sent[j].n

\* C18's case: two frames were captured before sessionPromise resolved and
\* both have been sent.
C18_Witness ==
  /\ Len(sent) = 2
  /\ sent[1].queued
  /\ sent[2].queued

(***************************************************************************)
(* Claims about the history, checked under SpecHistory.                    *)
(***************************************************************************)
\* C19: every step leaves the history as it was or extends it at the end,
\* and every turn of the history has text that is not blank.
C19_HistoryAppendOnly ==
  /\ [][ /\ Len(transcriptionHistory') >= Len(transcriptionHistory)
         /\ SubSeq(transcriptionHistory', 1, Len(transcriptionHistory))
              = transcriptionHistory
       ]_vars
  /\ [](\A i \in 1..Len(transcriptionHistory) :
          ~IsBlank(transcriptionHistory[i].text))

\* C19's case: a turn was appended in a session that was then torn down,
\* and a later session has appended another turn behind it.
C19_Witness ==
  /\ Len(transcriptionHistory) = 2
  /\ transport[1] \in {"closing", "closed", "failed"}
  /\ transport[2] = "open"
  /\ msgCount = 2

(***************************************************************************)
(* The cursor and the device clock, checked under SpecSchedule.           *)
(***************************************************************************)
\* C20 as claimed: while a session is active the cursor is at or after the
\* output context's clock, and the cursor decreases only by a reset to 0.
C20_CursorNeverBehindClock ==
  /\ []((status = "CONNECTED" /\ outputAudioContextRef # NoRef) =>
          nextStartTimeRef >= currentTime[outputAudioContextRef])
  /\ [][nextStartTimeRef' < nextStartTimeRef => nextStartTimeRef' = 0]_vars

\* C20 as amended: when a chunk arrives the cursor is raised to at least the
\* output context's clock at that moment, and the cursor decreases only when
\* an interruption resets it to 0; between arrivals the clock may pass it.
C20_RaisedAtArrival ==
  [][ /\ \A h \in handlers' \ handlers :
           nextStartTimeRef' >= currentTime[h.ctx]
      /\ nextStartTimeRef' < nextStartTimeRef =>
           (InterruptionStep /\ nextStartTimeRef' = 0) ]_vars

\* C20's case: a chunk arrived with the clock ahead of the cursor and raised
\* it, and the clock has since passed the cursor again.
C20_Witness ==
  \E h \in handlers :
    /\ h.arr >= 1
    /\ nextStartTimeRef = h.arr
    /\ status = "CONNECTED"
    /\ currentTime[h.ctx] > nextStartTimeRef
(***************************************************************************)
(* The Disconnected state, checked under SpecCapture.                     *)
(***************************************************************************)
\* C21: whenever the state is Disconnected and no invocation of
\* startSession is in progress, the stream is stopped, both contexts are
\* closed, the transport is not open, every handle is unset and the active
\* set is empty, whether stopSession, onclose or construction led there.
C21_DisconnectedHoldsNothing ==
  (status = "DISCONNECTED" /\ \A k \in Sessions : pc[k] = "idle" \/ Completed(k))
    => /\ \A k \in Sessions : Released(k)
       /\ HandlesUnset
       /\ sourcesRef = {}
(***************************************************************************)
(* The cursor across sessions, checked under SpecHistory.                 *)
(***************************************************************************)
\* The first unit scheduled by its session, an earlier session having
\* scheduled audio.
FirstOfLaterSession(i) ==
  /\ \A j \in 1..(i - 1) : units[j].k # units[i].k
  /\ \E j \in 1..(i - 1) : units[j].k < units[i].k

\* C22: the first unit of a session started after a session that scheduled
\* audio starts at max(0, the new output context's clock), the clock being
\* read between the chunk's arrival and its scheduling, not at the cursor
\* the earlier session left.
C22_CursorDoesNotLeak ==
  \A i \in 1..Len(units) :
    FirstOfLaterSession(i) =>
      \E c \in units[i].arr..units[i].at : units[i].start = Max(0, c)
(***************************************************************************)
(* The order in which messages take effect, checked under SpecTranscript. *)
(***************************************************************************)
\* Sequence p is an initial part of sequence q.
IsPrefix(p, q) == Len(p) <= Len(q) /\ SubSeq(q, 1, Len(p)) = p

\* C23: a turn appended by a handler that resumes after its decode is the
\* turn its message called for when it arrived, so the history is always an
\* initial part of the turns called for in arrival order, and once every
\* handler has run the accumulators hold exactly the fragments delivered
\* after the last turn-complete signal.
C23_EffectsInArrivalOrder ==
  /\ [][(epoch' = 0 /\ transcriptionHistory' # transcriptionHistory)
          => IsPrefix(transcriptionHistory', expHistory')]_vars
  /\ []((handlers = {} /\ epoch = 0) =>
          (currentInputText = expIn /\ currentOutputText = expOut))
====
